---- MODULE Spec2Model ----
(***************************************************************************)
(* Model of audiobook_creator.py: the text sanitizer clean_text_for_tts,   *)
(* the chunker smart_text_splitter (one action per loop iteration) and the *)
(* two conversions convert_large_text_to_speech and                        *)
(* convert_text_file_to_speech as dispatched by main.                      *)
(*                                                                         *)
(* A text is a sequence of one-character strings.  Positions are Python's  *)
(* 0-based offsets; Slice(s, a, b) is Python's s[a:b].                     *)
(***************************************************************************)
EXTENDS Integers, Sequences, FiniteSets, TLC

\* ------------------------------------------------------------------ bounds
\* Longest raw text enumerated exhaustively over Alphabet.
MaxLen == 8
\* Largest chunk_size paired with the exhaustively enumerated texts.
MaxChunk == 7
\* Raw characters of the exhaustive texts: a word character, a sentence
\* punctuation mark, whitespace.
Alphabet == {"a", ".", " "}

\* ------------------------------------------------------- program constants
\* `if len(word) > 50` in clean_text_for_tts.
MaxWordLen == 50

Min(a, b) == IF a < b THEN a ELSE b
Max(a, b) == IF a > b THEN a ELSE b

\* ------------------------------------------------------- character classes
\* \w of the regular expression (the ASCII part).
WordChars ==
    {"a", "b", "c", "d", "e", "f", "g", "h", "i", "j", "k", "l", "m",
     "n", "o", "p", "q", "r", "s", "t", "u", "v", "w", "x", "y", "z",
     "A", "B", "C", "D", "E", "F", "G", "H", "I", "J", "K", "L", "M",
     "N", "O", "P", "Q", "R", "S", "T", "U", "V", "W", "X", "Y", "Z",
     "0", "1", "2", "3", "4", "5", "6", "7", "8", "9", "_"}

\* \s of the regular expression, str.isspace, and what str.strip and
\* str.split treat as whitespace.
IsSpace(c) == c \in {" ", "\n", "\t", "\r"}

\* The punctuation the character class of line 24 keeps.
KeptPunctuation == {".", ",", "!", "?", ";", ":", "-", "'", "\""}

\* A character outside [^\w\s\.\,\!\?\;\:\-\'\"] is kept.
IsKept(c) == c \in WordChars \/ IsSpace(c) \/ c \in KeptPunctuation

\* ---------------------------------------------------------- string helpers
\* Python's s[a:b] for 0 <= a, 0 <= b (clamped to the end of s).
Slice(s, a, b) == SubSeq(s, a + 1, Min(b, Len(s)))

\* The indices 1..Len(s), in order.
Indices(s) == [i \in 1..Len(s) |-> i]

\* The positions (1-based) of the characters of s that are not whitespace.
NonSpaceAt(s) == {i \in 1..Len(s) : ~IsSpace(s[i])}

SetMin(S) == CHOOSE x \in S : \A y \in S : x <= y
SetMax(S) == CHOOSE x \in S : \A y \in S : x >= y

\* str.lstrip()
LStrip(s) ==
    IF NonSpaceAt(s) = {} THEN <<>> ELSE SubSeq(s, SetMin(NonSpaceAt(s)), Len(s))

\* str.rstrip()
RStrip(s) ==
    IF NonSpaceAt(s) = {} THEN <<>> ELSE SubSeq(s, 1, SetMax(NonSpaceAt(s)))

\* str.strip()
Strip(s) == RStrip(LStrip(s))

\* str.split(): the maximal whitespace-free runs, in order.  A run starts at
\* a non-whitespace character that is first or follows whitespace, and ends
\* before the next whitespace character.
PySplit(s) ==
    LET IsStart(i) == ~IsSpace(s[i]) /\ (i = 1 \/ IsSpace(s[i - 1]))
        starts == SelectSeq(Indices(s), IsStart)
        EndOf(i) == SetMin({j \in i..Len(s) : j = Len(s) \/ IsSpace(s[j + 1])})
    IN  [k \in 1..Len(starts) |-> SubSeq(s, starts[k], EndOf(starts[k]))]

\* ' '.join(words)
RECURSIVE PyJoin(_)
PyJoin(words) ==
    IF words = <<>> THEN <<>>
    ELSE IF Len(words) = 1 THEN words[1]
    ELSE words[1] \o <<" ">> \o PyJoin(Tail(words))

\* ------------------------------------------------------ clean_text_for_tts
\* re.sub(r'[^\w\s\.\,\!\?\;\:\-\'\"]', ' ', text)
ReplaceProblematic(s) == [i \in 1..Len(s) |-> IF IsKept(s[i]) THEN s[i] ELSE " "]

\* re.sub(r'\s+', ' ', text): every maximal run of whitespace becomes one
\* space (the first character of the run is kept, as a space).
FixMultipleSpaces(s) ==
    LET IsKeptAt(i) == ~(IsSpace(s[i]) /\ i > 1 /\ IsSpace(s[i - 1]))
        kept == SelectSeq(Indices(s), IsKeptAt)
    IN  [k \in 1..Len(kept) |-> IF IsSpace(s[kept[k]]) THEN " " ELSE s[kept[k]]]

\* KeepWord without the length test: no word is skipped.
KeepEveryWord(word) == TRUE

\* The loop over words: a word longer than 50 characters is skipped.
KeepWord(word) == ~(Len(word) > MaxWordLen)

cleaned_words(words) == SelectSeq(words, KeepWord)

clean_text_for_tts(s) ==
    Strip(PyJoin(cleaned_words(PySplit(FixMultipleSpaces(ReplaceProblematic(s))))))

\* ----------------------------------------------------- smart_text_splitter
\* sentence_endings, in list order.
sentence_endings ==
    << <<".", " ">>, <<"!", " ">>, <<"?", " ">>,
       <<".", "\n">>, <<"!", "\n">>, <<"?", "\n">> >>

\* chunk_text[i:i+len(ending)] == ending for some ending of the list.
EndingAt(chunk_text, i) ==
    \E k \in 1..Len(sentence_endings) :
        Slice(chunk_text, i, i + Len(sentence_endings[k])) = sentence_endings[k]

\* for i in range(start, stop, -1): the first i with an ending gives i + 1;
\* -1 when the range is exhausted.
RECURSIVE ScanBack(_, _, _)
ScanBack(chunk_text, i, stop) ==
    IF i <= stop THEN -1
    ELSE IF EndingAt(chunk_text, i) THEN i + 1
    ELSE ScanBack(chunk_text, i - 1, stop)

\* SentenceSplit scanning down to the start of the window, not to its middle.
SentenceSplitWholeWindow(chunk_text) ==
    ScanBack(chunk_text, Len(chunk_text) - 1, 0)

\* SentenceSplit with best_split = i: the punctuation mark is left out.
SentenceSplitBeforeMark(chunk_text) ==
    LET b == ScanBack(chunk_text, Len(chunk_text) - 1, Max(Len(chunk_text) \div 2, 0))
    IN  IF b = -1 THEN -1 ELSE b - 1

\* best_split after the sentence-ending scan of lines 66-75.
SentenceSplit(chunk_text) ==
    ScanBack(chunk_text, Len(chunk_text) - 1, Max(Len(chunk_text) \div 2, 0))

\* WordSplit joining every word, the last one included.
WordSplitAllWords(chunk_text) == Len(PyJoin(PySplit(chunk_text)))

\* best_split of the word-boundary branch, lines 79-83 (len(words) > 1).
WordSplit(chunk_text) ==
    LET words == PySplit(chunk_text) IN
    Len(PyJoin(SubSeq(words, 1, Len(words) - 1)))

\* HardSplit one character too far.
HardSplitOffByOne(chunk_size) == chunk_size + 1

\* best_split of the single-long-word branch, line 86.
HardSplit(chunk_size) == chunk_size

\* best_split as line 88 uses it.
best_split(chunk_text, chunk_size) ==
    IF SentenceSplit(chunk_text) # -1 THEN SentenceSplit(chunk_text)
    ELSE IF Len(PySplit(chunk_text)) > 1 THEN WordSplit(chunk_text)
    ELSE HardSplit(chunk_size)

\* SkipWhitespace without the loop: the cursor stays at the cut.
SkipNoWhitespace(s, pos) == pos

\* while current_pos < len(text) and text[current_pos].isspace(): current_pos += 1
RECURSIVE SkipWhitespace(_, _)
SkipWhitespace(s, pos) ==
    IF pos < Len(s) /\ IsSpace(s[pos + 1]) THEN SkipWhitespace(s, pos + 1) ELSE pos

\* [chunk for chunk in chunks if chunk.strip()]
NonEmptyChunk(chunk) == Strip(chunk) # <<>>

FilterChunks(cs) == SelectSeq(cs, NonEmptyChunk)

\* The while loop of lines 53-93 run to its end from (pos, acc).
RECURSIVE SplitLoop(_, _, _, _)
SplitLoop(s, size, pos, acc) ==
    IF ~(pos < Len(s)) THEN acc
    ELSE IF pos + size >= Len(s) THEN Append(acc, Strip(Slice(s, pos, Len(s))))
    ELSE LET b == best_split(Slice(s, pos, pos + size), size) IN
         SplitLoop(s, size, SkipWhitespace(s, pos + b),
                   Append(acc, Strip(Slice(s, pos, pos + b))))

\* The function as a whole: what a caller receives.
smart_text_splitter(raw, size) ==
    LET s == clean_text_for_tts(raw) IN
    IF Len(s) <= size THEN <<s>> ELSE FilterChunks(SplitLoop(s, size, 0, <<>>))

\* ------------------------------------------------------------------ inputs
Repeat(c, n) == [i \in 1..n |-> c]

\* All raw texts of at most MaxLen characters over Alphabet.
SmallTexts == UNION {[1..n -> Alphabet] : n \in 0..MaxLen}

\* "Hello world. This is a test! Another sentence?"
HelloText ==
    <<"H", "e", "l", "l", "o", " ", "w", "o", "r", "l", "d", ".", " ",
      "T", "h", "i", "s", " ", "i", "s", " ", "a", " ", "t", "e", "s", "t", "!", " ",
      "A", "n", "o", "t", "h", "e", "r", " ",
      "s", "e", "n", "t", "e", "n", "c", "e", "?">>

\* "abcd. efghijkl mn op qr": with chunk_size 6 a sentence split, a hard
\* cut, a word split and the last chunk.
AllRulesText ==
    <<"a", "b", "c", "d", ".", " ", "e", "f", "g", "h", "i", "j", "k", "l", " ",
      "m", "n", " ", "o", "p", " ", "q", "r">>

\* "ab c. d! e? fg h. ijklmnop qr": with chunk_size 12 the first window has
\* sentence endings in both halves, the second only in its lower half.
TerminatorsText ==
    <<"a", "b", " ", "c", ".", " ", "d", "!", " ", "e", "?", " ",
      "f", "g", " ", "h", ".", " ", "i", "j", "k", "l", "m", "n", "o", "p", " ", "q", "r">>

\* A single token of 100 characters.
Token100 == Repeat("x", 100)

\* Calls (text, chunk_size) beyond the exhaustive ones: the examples of the
\* documentation, tokens around the 50-character limit, raw whitespace and
\* characters outside the whitelist, several sentence endings in one window.
SampleCalls ==
    { <<HelloText, 20>>,
      <<Token100, 50>>,
      <<Repeat("x", 51), 50>>,
      <<Repeat("x", 50), 20>>,
      <<Repeat("x", 50) \o <<" ">> \o Repeat("y", 51) \o <<" ", "z">>, 30>>,
      <<Repeat("x", 23) \o <<".", " ">> \o Repeat("y", 30), 10>>,
      <<<<"a", "b", ".", "\n", "\n", "c", "d", "!", "\t", "e", "f", "?", " ", "g", "h", "i", "j">>, 12>>,
      <<TerminatorsText, 12>>,
      <<<<"a", "@", "b", "#", "#", "c", "d", "(", "e", ")", ".", " ", "f", "g", "h">>, 6>>,
      <<<<"@", "#", "@">>, 5>>,
      <<<<"b", "a", " ", "d", "c", " ", "f", "e", " ", "h", "g">>, 5>>,
      <<AllRulesText, 6>> }

Calls == (SmallTexts \X (1..MaxChunk)) \cup SampleCalls

\* ------------------------------------------------------------------- state
VARIABLES
    input,        \* the text argument of smart_text_splitter
    chunk_size,   \* its chunk_size argument
    text,         \* the local text after clean_text_for_tts
    chunks,       \* the local list chunks
    current_pos,  \* the cursor
    pc,           \* "start", "loop", "filter" (after the loop), "done"
    result,       \* the returned list (<<>> until the function returns)
    emitted       \* one record per chunks.append of the loop: the cursor at
                  \* the start of the iteration (pos), the offset the chunk
                  \* was cut at (split: best_split, or the length of the rest
                  \* for the last chunk), the cursor after the iteration
                  \* (next) and the branch that chose the offset (rule)

svars == <<input, chunk_size, text, chunks, current_pos, pc, result, emitted>>

\* The state of a conversion: main, convert_large_text_to_speech,
\* convert_text_file_to_speech, the input file, the output file and the
\* synthesis service.
VARIABLES
    fn,            \* the function running: "main", "large" or "small"
    configured,    \* API_KEY and MODEL_ID were replaced (tested by main)
    file_exists,   \* the input file exists
    file_text,     \* its content
    large_size,    \* the chunk_size argument of convert_large_text_to_speech
    cpc,           \* where the conversion is: "idle", "main", "large",
                   \* "small", "chunk_loop", "streaming", "small_streaming",
                   \* "returned"
    chunk_list,    \* the local chunks of convert_large_text_to_speech
    chunk_i,       \* the loop variable i: the index of the chunk in hand
    chunk_audio,   \* the local chunk_audio
    audio_chunks,  \* the local audio_chunks
    output_exists, \* the output file was opened for writing
    output,        \* the bytes written to it
    ret,           \* the value returned: "none", "True" or "False"
    calls,         \* the calls made so far to session.tts and time.sleep
    served         \* the service's side of each request: the pieces it
                   \* yielded and how the stream ended

cvars == <<fn, configured, file_exists, file_text, large_size, cpc, chunk_list, chunk_i,
           chunk_audio, audio_chunks, output_exists, output, ret, calls, served>>

vars == <<svars, cvars>>

\* No conversion is running.
ConvIdle ==
    /\ fn = "none"
    /\ configured = FALSE
    /\ file_exists = FALSE
    /\ file_text = <<>>
    /\ large_size = 0
    /\ cpc = "idle"
    /\ chunk_list = <<>>
    /\ chunk_i = 0
    /\ chunk_audio = <<>>
    /\ audio_chunks = <<>>
    /\ output_exists = FALSE
    /\ output = <<>>
    /\ ret = "none"
    /\ calls = <<>>
    /\ served = <<>>

\* No call of smart_text_splitter is being stepped through.
SplitIdle ==
    /\ input = <<>>
    /\ chunk_size = 0
    /\ text = <<>>
    /\ chunks = <<>>
    /\ current_pos = 0
    /\ pc = "idle"
    /\ result = <<>>
    /\ emitted = <<>>

Init ==
    /\ \E call \in Calls : input = call[1] /\ chunk_size = call[2]
    /\ text = <<>>
    /\ chunks = <<>>
    /\ current_pos = 0
    /\ pc = "start"
    /\ result = <<>>
    /\ emitted = <<>>
    /\ ConvIdle

\* lines 45-48: the text fits one chunk and is returned as it is.
ReturnWhole ==
    /\ pc = "start"
    /\ Len(clean_text_for_tts(input)) <= chunk_size
    /\ text' = clean_text_for_tts(input)
    /\ result' = <<clean_text_for_tts(input)>>
    /\ pc' = "done"
    /\ UNCHANGED <<input, chunk_size, chunks, current_pos, emitted>>
    /\ UNCHANGED cvars

\* lines 45-51: the text is longer than a chunk; enter the loop.
EnterLoop ==
    /\ pc = "start"
    /\ ~(Len(clean_text_for_tts(input)) <= chunk_size)
    /\ text' = clean_text_for_tts(input)
    /\ chunks' = <<>>
    /\ current_pos' = 0
    /\ pc' = "loop"
    /\ UNCHANGED <<input, chunk_size, result, emitted>>
    /\ UNCHANGED cvars

\* lines 57-60: the rest fits; append it and break.
LastChunk ==
    /\ pc = "loop"
    /\ current_pos < Len(text)
    /\ current_pos + chunk_size >= Len(text)
    /\ chunks' = Append(chunks, Strip(Slice(text, current_pos, Len(text))))
    /\ emitted' = Append(emitted, [pos |-> current_pos, split |-> Len(text) - current_pos,
                                   next |-> current_pos, rule |-> "last"])
    /\ pc' = "filter"
    /\ UNCHANGED <<input, chunk_size, text, current_pos, result>>
    /\ UNCHANGED cvars

\* lines 88-93 with the best_split given: append, advance, skip whitespace.
Emit(b, rule) ==
    /\ chunks' = Append(chunks, Strip(Slice(text, current_pos, current_pos + b)))
    /\ current_pos' = SkipWhitespace(text, current_pos + b)
    /\ emitted' = Append(emitted, [pos |-> current_pos, split |-> b,
                                   next |-> SkipWhitespace(text, current_pos + b),
                                   rule |-> rule])
    /\ UNCHANGED <<input, chunk_size, text, pc, result>>
    /\ UNCHANGED cvars

\* The window of the current iteration (line 63).
Window == Slice(text, current_pos, current_pos + chunk_size)

\* An iteration that passed the tests of lines 53 and 57.
InLoopBody ==
    /\ pc = "loop"
    /\ current_pos < Len(text)
    /\ ~(current_pos + chunk_size >= Len(text))

\* An iteration that found a sentence ending (lines 69-75).
SplitAtSentence ==
    /\ InLoopBody
    /\ SentenceSplit(Window) # -1
    /\ Emit(best_split(Window, chunk_size), "sentence")

\* An iteration that fell back to the word boundary (lines 77-83).
SplitAtWord ==
    /\ InLoopBody
    /\ SentenceSplit(Window) = -1
    /\ Len(PySplit(Window)) > 1
    /\ Emit(best_split(Window, chunk_size), "word")

\* An iteration that cut a single long word (lines 84-86).
SplitHard ==
    /\ InLoopBody
    /\ SentenceSplit(Window) = -1
    /\ ~(Len(PySplit(Window)) > 1)
    /\ Emit(best_split(Window, chunk_size), "hard")

\* line 95, after the break or after the loop condition failed.
ReturnChunks ==
    /\ pc = "filter" \/ (pc = "loop" /\ ~(current_pos < Len(text)))
    /\ result' = FilterChunks(chunks)
    /\ pc' = "done"
    /\ UNCHANGED <<input, chunk_size, text, chunks, current_pos, emitted>>
    /\ UNCHANGED cvars

Next ==
    \/ ReturnWhole
    \/ EnterLoop
    \/ LastChunk
    \/ SplitAtSentence
    \/ SplitAtWord
    \/ SplitHard
    \/ ReturnChunks

Spec == Init /\ [][Next]_vars

\* The step-by-step run returns what the function computes.
StepwiseAgrees == pc = "done" => result = smart_text_splitter(input, chunk_size)

\* ------------------------------------------------------------ conversions
\* CHUNK_SIZE, line 17.
CHUNK_SIZE == 1800
\* `if text_length > 2000` in main.
SmallFileThreshold == 2000
\* time.sleep(0.5), in tenths of a second.
SleepTenths == 5

\* The most pieces the service yields for one request.
MaxPieces == 2

\* The concatenation of a list of byte strings (or of strings).
RECURSIVE Concat(_)
Concat(ss) == IF ss = <<>> THEN <<>> ELSE Head(ss) \o Concat(Tail(ss))

\* Input files of the conversions: empty, whitespace only, only characters
\* outside the whitelist, one chunk, and texts of several chunks.
ConvTexts ==
    { <<>>,
      <<" ", "\n">>,
      <<"@", "#">>,
      <<"a", "b">>,
      <<" ", "a", "b", " ", "c", "d", " ", "e", "f", "\n">>,
      <<"a", "b", ".", " ", "c", "d", " ", "e", "f", ".", " ", "g", "h">> }

\* chunk_size arguments of direct calls of convert_large_text_to_speech.
ConvSizes == {3, 5}

ConvInit ==
    /\ SplitIdle
    /\ fn \in {"main", "large", "small"}
    /\ cpc = fn
    /\ configured \in (IF fn = "main" THEN BOOLEAN ELSE {TRUE})
    /\ file_exists \in BOOLEAN
    /\ file_text \in (IF file_exists THEN ConvTexts ELSE {<<>>})
    /\ large_size \in (IF fn = "large" THEN ConvSizes ELSE {CHUNK_SIZE})
    /\ chunk_list = <<>>
    /\ chunk_i = 0
    /\ chunk_audio = <<>>
    /\ audio_chunks = <<>>
    /\ output_exists = FALSE
    /\ output = <<>>
    /\ ret = "none"
    /\ calls = <<>>
    /\ served = <<>>

\* A call of session.tts for the chunk numbered n with the given text.
TtsCall(n, t) == [op |-> "tts", n |-> n, text |-> t, tenths |-> 0]

\* A call of time.sleep(0.5) after the chunk numbered n.
SleepCall(n) == [op |-> "sleep", n |-> n, text |-> <<>>, tenths |-> SleepTenths]

\* The service's record of a request just received.
NewRequest(n, t) == [n |-> n, text |-> t, pieces |-> <<>>, status |-> "streaming"]

\* The piece the service yields next for its latest request: k-th piece of
\* request n.
NextPiece == <<served[Len(served)].n, Len(served[Len(served)].pieces) + 1>>

\* The service's records after it yielded NextPiece.
ServedAfterPiece ==
    [served EXCEPT ![Len(served)].pieces = Append(@, NextPiece)]

\* The service's records after its latest stream ended with the status.
ServedAfterEnd(status) == [served EXCEPT ![Len(served)].status = status]

\* main, lines 216-218: the configuration still holds the placeholders.
MainNotConfigured ==
    /\ cpc = "main"
    /\ ~configured
    /\ cpc' = "returned"
    /\ UNCHANGED <<fn, configured, file_exists, file_text, large_size, chunk_list,
                   chunk_i, chunk_audio, audio_chunks, output_exists, output, ret,
                   calls, served>>
    /\ UNCHANGED svars

\* main, lines 221-224: the input file does not exist.
MainNoFile ==
    /\ cpc = "main"
    /\ configured
    /\ ~file_exists
    /\ cpc' = "returned"
    /\ UNCHANGED <<fn, configured, file_exists, file_text, large_size, chunk_list,
                   chunk_i, chunk_audio, audio_chunks, output_exists, output, ret,
                   calls, served>>
    /\ UNCHANGED svars

\* main, lines 227-249: the conversion is chosen by the length of the file.
MainDispatch ==
    /\ cpc = "main"
    /\ configured
    /\ file_exists
    /\ IF Len(file_text) > SmallFileThreshold
       THEN fn' = "large" /\ cpc' = "large" /\ large_size' = CHUNK_SIZE
       ELSE fn' = "small" /\ cpc' = "small" /\ UNCHANGED large_size
    /\ UNCHANGED <<configured, file_exists, file_text, chunk_list, chunk_i,
                   chunk_audio, audio_chunks, output_exists, output, ret, calls,
                   served>>
    /\ UNCHANGED svars

\* A conversion returns the value v (lines 110, 162, 166, 183, 203, 207, 210).
Return(v) == ret' = v /\ cpc' = "returned"

\* convert_large_text_to_speech, lines 105 and 164-166: FileNotFoundError.
LargeFileNotFound ==
    /\ cpc = "large"
    /\ ~file_exists
    /\ Return("False")
    /\ UNCHANGED <<fn, configured, file_exists, file_text, large_size, chunk_list,
                   chunk_i, chunk_audio, audio_chunks, output_exists, output, calls,
                   served>>
    /\ UNCHANGED svars

\* lines 105-110: the file is empty after strip().
LargeEmpty ==
    /\ cpc = "large"
    /\ file_exists
    /\ Strip(file_text) = <<>>
    /\ Return("False")
    /\ UNCHANGED <<fn, configured, file_exists, file_text, large_size, chunk_list,
                   chunk_i, chunk_audio, audio_chunks, output_exists, output, calls,
                   served>>
    /\ UNCHANGED svars

\* lines 105-121: the text is split; the average of line 118 divides by
\* len(chunks), and a ZeroDivisionError is caught at line 167.
LargeSplit ==
    /\ cpc = "large"
    /\ file_exists
    /\ Strip(file_text) # <<>>
    /\ chunk_list' = smart_text_splitter(Strip(file_text), large_size)
    /\ IF Len(chunk_list') = 0
       THEN Return("False") /\ UNCHANGED <<chunk_i, audio_chunks>>
       ELSE /\ audio_chunks' = <<>>
            /\ chunk_i' = 1
            /\ cpc' = "chunk_loop"
            /\ UNCHANGED ret
    /\ UNCHANGED <<fn, configured, file_exists, file_text, large_size, chunk_audio,
                   output_exists, output, calls, served>>
    /\ UNCHANGED svars

\* lines 123-134: the request for the next chunk is made and sent.
ChunkRequest ==
    /\ cpc = "chunk_loop"
    /\ chunk_i <= Len(chunk_list)
    /\ chunk_audio' = <<>>
    /\ calls' = Append(calls, TtsCall(chunk_i, chunk_list[chunk_i]))
    /\ served' = Append(served, NewRequest(chunk_i, chunk_list[chunk_i]))
    /\ cpc' = "streaming"
    /\ UNCHANGED <<fn, configured, file_exists, file_text, large_size, chunk_list,
                   chunk_i, audio_chunks, output_exists, output, ret>>
    /\ UNCHANGED svars

\* lines 134-135: the service yields a piece; chunk_audio += audio_piece.
StreamPiece ==
    /\ cpc = "streaming"
    /\ Len(served[Len(served)].pieces) < MaxPieces
    /\ chunk_audio' = chunk_audio \o <<NextPiece>>
    /\ served' = ServedAfterPiece
    /\ UNCHANGED <<fn, configured, file_exists, file_text, large_size, cpc,
                   chunk_list, chunk_i, audio_chunks, output_exists, output, ret,
                   calls>>
    /\ UNCHANGED svars

\* SleepAfter without the test: a delay after every chunk, the last included.
SleepAfterEvery(n, m) == TRUE

\* `if i < len(chunks)` of line 141: a delay follows the chunk numbered n of m.
SleepAfter(n, m) == n < m

\* lines 137-142: the stream ended; the buffer is kept and the delay taken.
StreamEnd ==
    /\ cpc = "streaming"
    /\ served' = ServedAfterEnd("ok")
    /\ audio_chunks' = Append(audio_chunks, chunk_audio)
    /\ calls' = IF SleepAfter(chunk_i, Len(chunk_list))
                THEN Append(calls, SleepCall(chunk_i))
                ELSE calls
    /\ chunk_i' = chunk_i + 1
    /\ cpc' = "chunk_loop"
    /\ UNCHANGED <<fn, configured, file_exists, file_text, large_size, chunk_list,
                   chunk_audio, output_exists, output, ret>>
    /\ UNCHANGED svars

\* OnChunkError keeping what the failed stream had yielded.
OnChunkErrorKeepPartial(kept, partial) == Append(kept, partial)

\* audio_chunks after the except branch of lines 144-147: as it was.
OnChunkError(kept, partial) == kept

\* lines 144-147: the request or its stream raised; the chunk is skipped.
StreamRaise ==
    /\ cpc = "streaming"
    /\ served' = ServedAfterEnd("error")
    /\ audio_chunks' = OnChunkError(audio_chunks, chunk_audio)
    /\ chunk_i' = chunk_i + 1
    /\ cpc' = "chunk_loop"
    /\ UNCHANGED <<fn, configured, file_exists, file_text, large_size, chunk_list,
                   chunk_audio, output_exists, output, ret, calls>>
    /\ UNCHANGED svars

\* lines 150-162: the buffers are written to the output file, in list order.
Combine ==
    /\ cpc = "chunk_loop"
    /\ ~(chunk_i <= Len(chunk_list))
    /\ output_exists' = TRUE
    /\ output' = Concat(audio_chunks)
    /\ Return("True")
    /\ UNCHANGED <<fn, configured, file_exists, file_text, large_size, chunk_list,
                   chunk_i, chunk_audio, audio_chunks, calls, served>>
    /\ UNCHANGED svars

\* convert_text_file_to_speech, lines 178 and 205-207: FileNotFoundError.
SmallFileNotFound ==
    /\ cpc = "small"
    /\ ~file_exists
    /\ Return("False")
    /\ UNCHANGED <<fn, configured, file_exists, file_text, large_size, chunk_list,
                   chunk_i, chunk_audio, audio_chunks, output_exists, output, calls,
                   served>>
    /\ UNCHANGED svars

\* lines 178-183: the file is empty after strip().
SmallEmpty ==
    /\ cpc = "small"
    /\ file_exists
    /\ Strip(file_text) = <<>>
    /\ Return("False")
    /\ UNCHANGED <<fn, configured, file_exists, file_text, large_size, chunk_list,
                   chunk_i, chunk_audio, audio_chunks, output_exists, output, calls,
                   served>>
    /\ UNCHANGED svars

\* lines 186-198: the cleaned text is sent as one request and the output
\* file is opened.
SmallRequest ==
    /\ cpc = "small"
    /\ file_exists
    /\ Strip(file_text) # <<>>
    /\ calls' = Append(calls, TtsCall(1, clean_text_for_tts(Strip(file_text))))
    /\ served' = Append(served, NewRequest(1, clean_text_for_tts(Strip(file_text))))
    /\ output_exists' = TRUE
    /\ output' = <<>>
    /\ cpc' = "small_streaming"
    /\ UNCHANGED <<fn, configured, file_exists, file_text, large_size, chunk_list,
                   chunk_i, chunk_audio, audio_chunks, ret>>
    /\ UNCHANGED svars

\* lines 198-199: the service yields a piece; it is written to the file.
SmallPiece ==
    /\ cpc = "small_streaming"
    /\ Len(served[Len(served)].pieces) < MaxPieces
    /\ output' = output \o <<NextPiece>>
    /\ served' = ServedAfterPiece
    /\ UNCHANGED <<fn, configured, file_exists, file_text, large_size, cpc,
                   chunk_list, chunk_i, chunk_audio, audio_chunks, output_exists,
                   ret, calls>>
    /\ UNCHANGED svars

\* lines 201-203: the stream ended.
SmallEnd ==
    /\ cpc = "small_streaming"
    /\ served' = ServedAfterEnd("ok")
    /\ Return("True")
    /\ UNCHANGED <<fn, configured, file_exists, file_text, large_size, chunk_list,
                   chunk_i, chunk_audio, audio_chunks, output_exists, output, calls>>
    /\ UNCHANGED svars

\* lines 208-210: the request or its stream raised.
SmallRaise ==
    /\ cpc = "small_streaming"
    /\ served' = ServedAfterEnd("error")
    /\ Return("False")
    /\ UNCHANGED <<fn, configured, file_exists, file_text, large_size, chunk_list,
                   chunk_i, chunk_audio, audio_chunks, output_exists, output, calls>>
    /\ UNCHANGED svars

ConvNext ==
    \/ MainNotConfigured
    \/ MainNoFile
    \/ MainDispatch
    \/ LargeFileNotFound
    \/ LargeEmpty
    \/ LargeSplit
    \/ ChunkRequest
    \/ StreamPiece
    \/ StreamEnd
    \/ StreamRaise
    \/ Combine
    \/ SmallFileNotFound
    \/ SmallEmpty
    \/ SmallRequest
    \/ SmallPiece
    \/ SmallEnd
    \/ SmallRaise

ConvSpec == ConvInit /\ [][ConvNext]_vars

\* --------------------------------------------------- notions of the claims
\* The maximal whitespace-free run of s through the 1-based index i
\* (s[i] is not whitespace): its first index, last index and length.
TokenFirst(s, i) == SetMin({j \in 1..i : \A k \in j..i : ~IsSpace(s[k])})
TokenLast(s, i) == SetMax({j \in i..Len(s) : \A k \in i..j : ~IsSpace(s[k])})
TokenLen(s, i) == TokenLast(s, i) - TokenFirst(s, i) + 1

\* The lengths of the tokens of s.
TokenLens(s) == {TokenLen(s, i) : i \in NonSpaceAt(s)}

\* s without its whitespace characters.
NotSpace(c) == ~IsSpace(c)
Squeeze(s) == SelectSeq(s, NotSpace)

\* C1: every returned chunk is at most chunk_size characters long, whichever
\* rule produced it (and so is every chunk appended on the way).
C1_ChunkLength ==
    /\ \A k \in 1..Len(chunks) : Len(chunks[k]) <= chunk_size
    /\ pc = "done" => \A k \in 1..Len(result) : Len(result[k]) <= chunk_size

\* A call returned chunks of all four rules, one of them of full length.
C1_Witness ==
    /\ pc = "done"
    /\ {emitted[k].rule : k \in 1..Len(emitted)} = {"sentence", "word", "hard", "last"}
    /\ \E k \in 1..Len(result) : Len(result[k]) = chunk_size

\* The offset (0-based, in text) of the cut of the k-th iteration: the
\* characters before it went to the chunk.
CutOf(k) == emitted[k].pos + emitted[k].split

\* C3: no cut inside a word, unless the word is longer than chunk_size: at
\* every cut between two chunks the character before the cut or the one
\* after it is a space, or the token through the cut is longer than
\* chunk_size.
C3_NoCutInsideWord ==
    \A k \in 1..Len(emitted) :
        emitted[k].rule # "last" =>
            \/ IsSpace(text[CutOf(k)])
            \/ IsSpace(text[CutOf(k) + 1])
            \/ TokenLen(text, CutOf(k)) > chunk_size

\* A call cut once at a word boundary, once inside a token longer than
\* chunk_size, while the text also has tokens that fit a chunk.
C3_Witness ==
    /\ pc = "done"
    /\ \E k \in 1..Len(emitted) :
          emitted[k].rule = "word" /\ IsSpace(text[CutOf(k) + 1])
    /\ \E k \in 1..Len(emitted) :
          /\ emitted[k].rule = "hard"
          /\ ~IsSpace(text[CutOf(k)]) /\ ~IsSpace(text[CutOf(k) + 1])
    /\ \E n \in TokenLens(text) : n <= chunk_size /\ n > 1

\* Joining the chunks with single spaces and collapsing whitespace.
Rejoined(cs) == Strip(FixMultipleSpaces(PyJoin(cs)))

\* C4 as stated: the rejoined chunks are the sanitized text, for every text
\* and chunk_size, hard cuts included.
C4_ConcatenationLaw ==
    pc = "done" => Rejoined(result) = clean_text_for_tts(input)

\* C4 amended: the law holds when no token of the sanitized text is longer
\* than chunk_size; in every case the chunks carry the non-space characters
\* of the sanitized text, all of them and in order.
C4_ConcatenationLawNoLongToken ==
    pc = "done" =>
        /\ (\A n \in TokenLens(clean_text_for_tts(input)) : n <= chunk_size)
               => Rejoined(result) = clean_text_for_tts(input)
        /\ Squeeze(Concat(result)) = Squeeze(clean_text_for_tts(input))

\* A call returned three or more chunks of a text of several tokens that all
\* fit a chunk, cut by the sentence rule and by the word rule.
C4_Witness ==
    /\ pc = "done"
    /\ Len(result) >= 3
    /\ \A n \in TokenLens(text) : n <= chunk_size
    /\ {"sentence", "word"} \subseteq {emitted[k].rule : k \in 1..Len(emitted)}
    /\ Rejoined(result) = text

\* The pieces a token is cut into at every size characters from its start.
HardPieces(token, size) ==
    [k \in 1..((Len(token) + size - 1) \div size) |->
        Slice(token, (k - 1) * size, k * size)]

\* C8 as stated: the token of 100 characters with chunk_size 50 comes back
\* as its first 50 and its last 50 characters.
C8_HardCutExample ==
    (pc = "done" /\ input = Token100 /\ chunk_size = 50)
        => result = <<Repeat("x", 50), Repeat("x", 50)>>

\* The raw text is one token: no whitespace, only kept characters.
SingleToken(s) == s # <<>> /\ \A i \in 1..Len(s) : IsKept(s[i]) /\ ~IsSpace(s[i])

\* The 0-based offsets at which a token longer than chunk_size starts in text.
LongTokenStarts ==
    {i - 1 : i \in {j \in NonSpaceAt(text) :
                       TokenFirst(text, j) = j /\ TokenLen(text, j) > chunk_size}}

\* C8 amended: a text that is one token of more than 50 characters is
\* dropped by the sanitizer and the call returns one empty chunk; a text
\* that is one token of at most 50 characters and longer than chunk_size
\* comes back cut at every chunk_size characters; and every token of the
\* sanitized text longer than chunk_size has each of its full pieces of
\* chunk_size characters returned as a chunk of its own.
C8_HardCut ==
    pc = "done" =>
        /\ (SingleToken(input) /\ Len(input) > MaxWordLen) => result = << <<>> >>
        /\ (SingleToken(input) /\ Len(input) <= MaxWordLen /\ Len(input) > chunk_size)
               => result = HardPieces(input, chunk_size)
        /\ \A s \in LongTokenStarts :
               \A j \in 0..((TokenLen(text, s + 1) \div chunk_size) - 1) :
                   \E k \in 1..Len(emitted) :
                       /\ emitted[k].pos = s + j * chunk_size
                       /\ chunks[k] = Slice(text, s + j * chunk_size, s + (j + 1) * chunk_size)
                       /\ Len(chunks[k]) = chunk_size
                       /\ \E m \in 1..Len(result) : result[m] = chunks[k]

\* The call on the token of 100 characters with chunk_size 50 returned.
C8_Witness == pc = "done" /\ input = Token100 /\ chunk_size = 50

\* The window of the k-th iteration.
WindowOf(k) == Slice(text, emitted[k].pos, emitted[k].pos + chunk_size)

\* The window indices (0-based) in the upper half of the window at which a
\* punctuation mark is followed, inside the window, by a space.
UpperTerminators(w) ==
    {i \in ((Len(w) \div 2) + 1)..(Len(w) - 2) :
        w[i + 1] \in {".", "!", "?"} /\ w[i + 2] = " "}

\* The same in the lower half (index <= floor(len/2)).
LowerTerminators(w) ==
    {i \in 0..Min(Len(w) \div 2, Len(w) - 2) :
        w[i + 1] \in {".", "!", "?"} /\ w[i + 2] = " "}

\* The 1-based indices at which a word of w starts.
WordStarts(w) == {i \in 1..Len(w) : ~IsSpace(w[i]) /\ (i = 1 \/ IsSpace(w[i - 1]))}

\* The word-boundary fallback, said without split and join: the window up
\* to the last character of its last but one word, or all of chunk_size
\* characters when the window has one word.
FallbackPoint(w, size) ==
    IF Cardinality(WordStarts(w)) > 1
    THEN SetMax({j \in 1..(SetMax(WordStarts(w)) - 1) : ~IsSpace(w[j])})
    ELSE size

\* The first offset after `from` (0-based) whose character is not a space.
FirstNonSpaceAfter(s, from) == SetMin({j \in (from + 1)..(Len(s) - 1) : ~IsSpace(s[j + 1])})

\* C9: an iteration whose window has a sentence terminator with its mark in
\* the upper half cuts right after the mark of the right-most one, and the
\* next chunk starts at the first non-space character after it; a window
\* with none there is cut by the word-boundary fallback, whatever its lower
\* half holds; the documented example gives "Hello world." first.
C9_SentencePreference ==
    /\ \A k \in 1..Len(emitted) :
          emitted[k].rule # "last" =>
              LET w == WindowOf(k)
                  u == UpperTerminators(w)
              IN  IF u # {}
                  THEN /\ emitted[k].rule = "sentence"
                       /\ emitted[k].split = SetMax(u) + 1
                       /\ chunks[k] = Slice(text, emitted[k].pos, emitted[k].pos + SetMax(u) + 1)
                       /\ chunks[k][Len(chunks[k])] = w[SetMax(u) + 1]
                       /\ emitted[k].next = FirstNonSpaceAfter(text, emitted[k].pos + SetMax(u))
                  ELSE /\ emitted[k].rule \in {"word", "hard"}
                       /\ emitted[k].split = FallbackPoint(w, chunk_size)
    /\ (pc = "done" /\ input = HelloText /\ chunk_size = 20)
          => result[1] = SubSeq(HelloText, 1, 12)

\* A call whose first window had two terminators in its upper half and one
\* in its lower half, and whose second window had one in its lower half only.
C9_Witness ==
    /\ pc = "done"
    /\ Len(emitted) >= 3
    /\ Cardinality(UpperTerminators(WindowOf(1))) >= 2
    /\ LowerTerminators(WindowOf(1)) # {}
    /\ emitted[1].rule = "sentence"
    /\ UpperTerminators(WindowOf(2)) = {}
    /\ LowerTerminators(WindowOf(2)) # {}
    /\ emitted[2].rule = "word"

\* The cursor facts of C10: every iteration but the last cuts at an offset of
\* at least 1 and moves the cursor forward, onto a character that is not
\* whitespace, and an iteration starts on such a character.
C10_Cursor ==
    /\ \A k \in 1..Len(emitted) :
          emitted[k].rule # "last" =>
              /\ emitted[k].split >= 1
              /\ emitted[k].next > emitted[k].pos
              /\ emitted[k].next < Len(text)
              /\ ~IsSpace(text[emitted[k].next + 1])
    /\ pc = "loop" => current_pos < Len(text) /\ ~IsSpace(text[current_pos + 1])

\* C10: the split loop terminates.  The cursor facts hold, so the cursor
\* grows with every iteration and stays below len(text): the loop has run at
\* most len(text) iterations, each starting where the one before left the
\* cursor, and it is left by the break of the last chunk.
C10_Terminates ==
    /\ C10_Cursor
    /\ \A k \in 2..Len(emitted) : emitted[k].pos = emitted[k - 1].next
    /\ Len(emitted) <= Len(text)
    /\ (pc \in {"filter", "done"} /\ emitted # <<>>)
           => emitted[Len(emitted)].rule = "last"

\* A call returned after four or more iterations.
C10_Witness == pc = "done" /\ Len(emitted) >= 4

\* The requests the service answered without error, in the order received.
RequestOk(r) == r.status = "ok"
PiecesOf(rs) == [k \in 1..Len(rs) |-> rs[k].pieces]
SuccessfulAudio == Concat(PiecesOf(SelectSeq(served, RequestOk)))

\* convert_large_text_to_speech ran through its chunk loop and returned.
LargeDone == fn = "large" /\ cpc = "returned" /\ ret = "True"

\* C2: the output file holds the audio of the chunks whose synthesis ended
\* without error, whole and in chunk order; a chunk whose synthesis raised
\* gives no bytes; every chunk was requested, in order, failures or not.
C2_OutputIsSuccessfulAudio ==
    /\ LargeDone =>
          /\ output_exists
          /\ output = SuccessfulAudio
          /\ Len(served) = Len(chunk_list)
          /\ \A k \in 1..Len(served) : served[k].n = k /\ served[k].text = chunk_list[k]
    /\ (fn = "large" /\ cpc = "chunk_loop") =>
          Concat(audio_chunks) = SuccessfulAudio

\* A conversion of three or more chunks returned: a chunk succeeded, a later
\* one raised after it had yielded a piece, a still later one succeeded with
\* two pieces.
C2_Witness ==
    /\ LargeDone
    /\ Len(served) >= 3
    /\ \E a, b, c \in 1..Len(served) :
          /\ a < b /\ b < c
          /\ served[a].status = "ok" /\ served[a].pieces # <<>>
          /\ served[b].status = "error" /\ served[b].pieces # <<>>
          /\ served[c].status = "ok" /\ Len(served[c].pieces) >= 2

\* C5: every chunk convert_large_text_to_speech gets from
\* smart_text_splitter is non-empty after trimming, no synthesis request
\* carries an empty text, and a document whose sanitized form is empty is
\* turned down as empty input.
C5_NoEmptyChunk ==
    fn = "large" =>
        /\ \A k \in 1..Len(chunk_list) : Strip(chunk_list[k]) # <<>>
        /\ \A k \in 1..Len(calls) : calls[k].op = "tts" => Strip(calls[k].text) # <<>>
        /\ (cpc = "returned" /\ file_exists /\ clean_text_for_tts(Strip(file_text)) = <<>>)
               => ret = "False"

\* C6: a conversion returns failure only if the input file is missing or
\* empty after trimming.
C6_FailureOnlyForInput ==
    (cpc = "returned" /\ ret = "False") =>
        (~file_exists \/ Strip(file_text) = <<>>)

\* The calls of session.tts among the first k calls.
IsTts(c) == c.op = "tts"
TtsCalls == SelectSeq(calls, IsTts)

\* The position in calls of the request for the chunk numbered n.
CallIndex(n) == CHOOSE k \in 1..Len(calls) : calls[k].op = "tts" /\ calls[k].n = n

\* The requests go out one at a time and in chunk order: the requests made
\* are those of chunks 1, 2, ... with the chunk's text, and only the latest
\* can still be streaming.
InChunkOrder ==
    /\ \A k \in 1..Len(TtsCalls) :
          TtsCalls[k].n = k /\ TtsCalls[k].text = chunk_list[k]
    /\ Len(served) = Len(TtsCalls)
    /\ \A k \in 1..(Len(served) - 1) : served[k].status # "streaming"

\* C7 as stated: the requests go out in chunk order, a delay lies between
\* any two consecutive requests, and none follows the last chunk.
C7_DelayBetweenRequests ==
    fn = "large" =>
        /\ InChunkOrder
        /\ \A k \in 1..(Len(calls) - 1) :
              calls[k].op = "tts" => calls[k + 1].op = "sleep"
        /\ \A k \in 1..Len(calls) :
              calls[k].op = "sleep" => calls[k].n < Len(chunk_list)

\* C7 amended: the requests go out in chunk order; after a request that
\* ended without error and is not the last chunk's, one delay of 0.5 s
\* comes before the next request; after a request that raised, the next
\* request follows with no delay; no delay follows the last chunk.
C7_DelayAfterSuccess ==
    fn = "large" =>
        /\ InChunkOrder
        /\ \A k \in 1..Len(served) :
              LET c == CallIndex(k) IN
              /\ (served[k].status = "ok" /\ k < Len(chunk_list)) =>
                    /\ c < Len(calls)
                    /\ calls[c + 1].op = "sleep"
                    /\ calls[c + 1].tenths = SleepTenths
                    /\ c + 1 < Len(calls) => calls[c + 2].op = "tts"
              /\ (served[k].status = "error" /\ c < Len(calls)) =>
                    calls[c + 1].op = "tts"
              /\ (k = Len(chunk_list) \/ served[k].status = "streaming") =>
                    c = Len(calls)

\* A conversion of three or more chunks returned: one request ended well and
\* another followed it, one raised and another followed it.
C7_Witness ==
    /\ LargeDone
    /\ Len(served) >= 3
    /\ \E a, b \in 1..(Len(served) - 1) :
          served[a].status = "ok" /\ served[b].status = "error"
====
